---- MODULE Spec2Model ----
(***************************************************************************)
(* The API gateway of the cloud learning platform (src/gateway/main.py):   *)
(* the security middleware, the route table, the generic reverse proxy     *)
(* and the two upload handlers.                                            *)
(*                                                                         *)
(* Representation of Python values                                         *)
(*   - a header value is kept as the list a split on " " gives: the first  *)
(*     part is a string (head), every further part a sequence of           *)
(*     characters (tail); "Bearer abc" is [head |-> "Bearer",              *)
(*     tail |-> << <<"a","b","c">> >>], "Bearer " has the one empty part   *)
(*     <<>> in its tail and "Bearer" has an empty tail;                    *)
(*   - a header list is a sequence of <<name, value>> pairs, in arrival    *)
(*     order, names possibly repeated (request.headers, response.headers); *)
(*   - a URL and a formatted message are sequences of their pieces;        *)
(*   - a body is [type, value]: type "json" parses with .json(), any other *)
(*     type makes .json() raise.                                           *)
(***************************************************************************)
EXTENDS Integers, Sequences, FiniteSets, TLC

VARIABLES
    pc,        \* position of the request being served
    req,       \* the inbound request (NoRequest when idle)
    resp,      \* what the caller got back (NoResponse until the handler ran)
    received,  \* history: requests received so far, per client address
    kafka_handler,  \* the KafkaHandler object of a service process
    proc,      \* the service process: its position, locals, store and results
    broker     \* the Kafka broker: reachable or not, and the records it holds

vars == <<pc, req, resp, received, kafka_handler, proc, broker>>

\* the state of the gateway process, and of a service process with its broker
gateway_vars == <<pc, req, resp, received>>
kafka_vars == <<kafka_handler, proc, broker>>

----------------------------------------------------------------------------
(* Bounds of the model *)

\* longest list of inbound header lines of a request
MaxHeaders == 2
\* requests one client sends in a run
MaxRequests == 3
\* longest bearer token
MaxTokenLen == 12
\* a ceiling the rate limiter could be configured with
RateCeiling == 1

----------------------------------------------------------------------------
(* Python values *)

None == [head |-> "None", tail |-> <<>>]

\* a string without spaces, as a header value
Str(s) == [head |-> s, tail |-> <<>>]

\* a token of n characters
Tok(n) == [i \in 1..n |-> "x"]

\* the header value "<scheme> <part> <part> ..."
Val(scheme, parts) == [head |-> scheme, tail |-> parts]

RECURSIVE SeqsUpTo(_, _)
\* every sequence over S of length at most n
SeqsUpTo(S, n) ==
    IF n = 0 THEN {<<>>}
    ELSE LET shorter == SeqsUpTo(S, n - 1)
         IN  shorter \cup {Append(s, x) : s \in {t \in shorter : Len(t) = n - 1}, x \in S}

\* Mapping.get(name): the first value under the name, else None
get(headers, name) ==
    IF \E i \in 1..Len(headers) : headers[i][1] = name
    THEN headers[CHOOSE i \in 1..Len(headers) :
                    /\ headers[i][1] = name
                    /\ \A j \in 1..(i - 1) : headers[j][1] # name][2]
    ELSE None

\* dict(mapping): one entry per name, in order of first arrival, holding
\* mapping[name], which for a header list is the first value
dict(headers) ==
    SelectSeq([i \in 1..Len(headers) |->
                  IF \A j \in 1..(i - 1) : headers[j][1] # headers[i][1]
                  THEN headers[i] ELSE <<"", None>>],
              LAMBDA p : p[1] # "")

\* d.pop(name, None), as the dictionary left behind
pop(d, name) == SelectSeq(d, LAMBDA p : p[1] # name)

\* str.lower() on the header names of the model
lower(k) ==
    CASE k = "Content-Encoding"  -> "content-encoding"
      [] k = "CONTENT-LENGTH"    -> "content-length"
      [] k = "Content-Length"    -> "content-length"
      [] k = "Transfer-Encoding" -> "transfer-encoding"
      [] k = "Connection"        -> "connection"
      [] k = "CONNECTION"        -> "connection"
      [] k = "Content-Type"      -> "content-type"
      [] k = "X-Backend"         -> "x-backend"
      [] OTHER                   -> k

----------------------------------------------------------------------------
(* Configuration *)

SERVICES ==
    [stt       |-> "http://stt-service:8001",
     tts       |-> "http://tts-service:8002",
     documents |-> "http://document-service:8003",
     chat      |-> "http://chat-service:8004",
     quiz      |-> "http://quiz-service:8005"]

\* the backends' content types that parse as JSON
Json(v) == [type |-> "json", value |-> v]
Bytes(v) == [type |-> "bytes", value |-> v]

----------------------------------------------------------------------------
(* What a handler gives back.  calls lists the outbound HTTP calls it     *)
(* issued, each with the outcome the backend gave; handler names the      *)
(* route handler that ran ("none" when the request never reached one);    *)
(* log lists the access-log lines the middleware wrote.                   *)

NoResponse ==
    [kind |-> "none", status |-> 0, content |-> Bytes(""), headers |-> <<>>,
     media_type |-> None, detail |-> <<>>, calls |-> <<>>, handler |-> "none",
     log |-> <<>>]

\* starlette Response(content=, status_code=, headers=, media_type=)
Response(content, status_code, headers, media_type, calls) ==
    [kind |-> "Response", status |-> status_code, content |-> content,
     headers |-> headers, media_type |-> media_type, detail |-> <<>>,
     calls |-> calls, handler |-> "none", log |-> <<>>]

\* raise HTTPException(status_code=, detail=): FastAPI answers with that
\* status and the JSON body {"detail": detail}
HTTPException(status_code, detail, calls) ==
    [kind |-> "HTTPException", status |-> status_code, content |-> Json("detail"),
     headers |-> <<>>, media_type |-> Str("application/json"), detail |-> detail,
     calls |-> calls, handler |-> "none", log |-> <<>>]

\* a handler returning a plain value: FastAPI serialises it as JSON, 200
JSONReturn(value, calls) ==
    [kind |-> "Response", status |-> 200, content |-> value, headers |-> <<>>,
     media_type |-> Str("application/json"), detail |-> <<>>, calls |-> calls,
     handler |-> "none", log |-> <<>>]

\* an exception no handler catches: the server answers 500
Unhandled(exception) ==
    [kind |-> exception, status |-> 500, content |-> Bytes("Internal Server Error"),
     headers |-> <<>>, media_type |-> Str("text/plain"), detail |-> <<>>,
     calls |-> <<>>, handler |-> "none", log |-> <<>>]

\* one outbound call through httpx and what came of it
OutboundCall(method, url, content, headers, params, files, timeout, outcome) ==
    [method |-> method, url |-> url, content |-> content, headers |-> headers,
     params |-> params, files |-> files, timeout |-> timeout, outcome |-> outcome]

\* response.headers.get(name): the lookup ignores letter case
get_ci(headers, name) ==
    get([i \in 1..Len(headers) |-> <<lower(headers[i][1]), headers[i][2]>>], name)

----------------------------------------------------------------------------
(* The generic reverse proxy *)

excluded_headers ==
    {"content-encoding", "content-length", "transfer-encoding", "connection"}

\* fault variant of response_headers: the names are compared as written,
\* without k.lower()
response_headers_case_sensitive(headers) ==
    SelectSeq(headers, LAMBDA p : p[1] \notin excluded_headers)

\* {k: v for k, v in response.headers.items() if k.lower() not in excluded_headers}
response_headers(headers) ==
    SelectSeq(headers, LAMBDA p : lower(p[1]) \notin excluded_headers)

\* headers = dict(request.headers); pop "host"; pop "content-length"
forwarded_headers(request) ==
    pop(pop(dict(request.headers), "host"), "content-length")

\* target_url = f"{base_url}/api/{service}/{path}"
target_url(service, path) == <<SERVICES[service], "api", service>> \o path

\* except clauses that try the call once more before answering
proxy_error_retrying(service, backend, calls) ==
    HTTPException(IF backend.kind = "ConnectError" THEN 503
                  ELSE IF backend.kind = "TimeoutException" THEN 504 ELSE 500,
                  <<backend.message>>, calls \o calls)

\* the except clauses of proxy_request, in the order Python tries them
proxy_error(service, backend, calls) ==
    CASE backend.kind = "ConnectError" ->
            HTTPException(503, <<"Service '", service,
                                 "' is temporarily unavailable. Please try again later.">>,
                          calls)
      [] backend.kind = "TimeoutException" ->
            HTTPException(504, <<"Service '", service, "' request timed out.">>, calls)
      [] OTHER ->
            HTTPException(500, <<backend.message>>, calls)

\* fault variant of proxy_request: the registry is consulted only after the
\* outbound call has been made
proxy_request_call_first(service, path, request, method, backend) ==
    LET base_url == IF service \in DOMAIN SERVICES THEN SERVICES[service] ELSE "None"
        http_method == IF method = "None" THEN request.method ELSE method
        calls == << OutboundCall(http_method, <<base_url, "api", service>> \o path,
                                 request.body, forwarded_headers(request),
                                 request.query, None, 30, backend) >>
    IN  IF service \notin DOMAIN SERVICES
        THEN HTTPException(404, <<"Service '", service, "' not found">>, calls)
        ELSE IF backend.kind = "response"
        THEN Response(backend.content, backend.status_code,
                      response_headers(backend.headers),
                      get_ci(backend.headers, "content-type"), calls)
        ELSE proxy_error(service, backend, calls)

proxy_request(service, path, request, method, backend) ==
    IF service \notin DOMAIN SERVICES
    THEN HTTPException(404, <<"Service '", service, "' not found">>, <<>>)
    ELSE LET http_method == IF method = "None" THEN request.method ELSE method
             calls == << OutboundCall(http_method, target_url(service, path),
                                      request.body, forwarded_headers(request),
                                      request.query, None, 30, backend) >>
         IN  IF backend.kind = "response"
             THEN Response(backend.content, backend.status_code,
                           response_headers(backend.headers),
                           get_ci(backend.headers, "content-type"), calls)
             ELSE proxy_error(service, backend, calls)

\* @app.api_route("/{service}/{path:path}")
proxy(service, path, request, backend) ==
    [proxy_request(service, path, request, "None", backend) EXCEPT !.handler = "proxy"]

----------------------------------------------------------------------------
(* The upload handlers *)

\* the except clauses without the httpx.ConnectError clause: every exception
\* is answered 500
upload_error_all_internal(name, backend, calls) ==
    HTTPException(500, <<backend.message>>, calls)

\* the except clauses shared by stt_transcribe and documents_upload
upload_error(name, backend, calls) ==
    IF backend.kind = "ConnectError"
    THEN HTTPException(503, <<name, " Service is unavailable">>, calls)
    ELSE HTTPException(500, <<backend.message>>, calls)

\* an adapter that answers with the backend's own status code
upload_result_relaying(name, backend, calls) ==
    IF backend.kind = "response"
    THEN Response(backend.content, backend.status_code, <<>>,
                  Str("application/json"), calls)
    ELSE upload_error(name, backend, calls)

\* return response.json(), which raises on a body that is not JSON
upload_result(name, backend, calls) ==
    IF backend.kind = "response"
    THEN IF backend.content.type = "json"
         THEN JSONReturn(backend.content, calls)
         ELSE HTTPException(500, <<"JSONDecodeError">>, calls)
    ELSE upload_error(name, backend, calls)

\* @app.post("/stt/transcribe")
stt_transcribe(file, language, backend) ==
    LET files == <<"file", file.filename, file.content, file.content_type>>
        params == << <<"language", language>> >>
        calls == << OutboundCall("POST", <<SERVICES["stt"], "api", "stt", "transcribe">>,
                                 None, <<>>, params, files, 60, backend) >>
    IN  [upload_result("STT", backend, calls) EXCEPT !.handler = "stt_transcribe"]

\* @app.post("/documents/upload")
documents_upload(file, backend) ==
    LET files == <<"file", file.filename, file.content, file.content_type>>
        calls == << OutboundCall("POST",
                                 <<SERVICES["documents"], "api", "documents", "upload">>,
                                 None, <<>>, <<>>, files, 60, backend) >>
    IN  [upload_result("Document", backend, calls) EXCEPT !.handler = "documents_upload"]

----------------------------------------------------------------------------
(* The handlers that make no outbound call, and the health aggregator *)

\* @app.get("/")
root == [JSONReturn(Json("gateway description"), <<>>) EXCEPT !.handler = "root"]

\* @app.get("/health")
health_check ==
    [JSONReturn(Json("gateway healthy"), <<>>) EXCEPT !.handler = "health_check"]

\* the order SERVICES.items() yields
service_order == <<"stt", "tts", "documents", "chat", "quiz">>

\* one iteration of the loop of services_status: the entry status[name]
probe_entry(name, outcome) ==
    IF outcome.kind = "response"
    THEN IF outcome.status_code = 200
         THEN IF outcome.content.type = "json"
              THEN <<name, "healthy", outcome.content.value>>
              ELSE <<name, "unreachable", "JSONDecodeError">>
         ELSE <<name, "unhealthy", outcome.status_code>>
    ELSE <<name, "unreachable", outcome.message>>

\* @app.get("/services/status"): the probes are awaited one after another
services_status(health) ==
    LET calls == [i \in 1..Len(service_order) |->
                     OutboundCall("GET", <<SERVICES[service_order[i]], "health">>,
                                  None, <<>>, <<>>, None, 5, health[service_order[i]])]
        status == [i \in 1..Len(service_order) |->
                     probe_entry(service_order[i], health[service_order[i]])]
    IN  [JSONReturn([type |-> "json", value |-> status], calls)
            EXCEPT !.handler = "services_status"]

----------------------------------------------------------------------------
(* The route table, in the order the routes are registered *)

routes ==
    << [path |-> <<"openapi.json">>,        methods |-> {"GET", "HEAD"}, handler |-> "openapi"],
       [path |-> <<"docs">>,                methods |-> {"GET", "HEAD"}, handler |-> "swagger_ui"],
       [path |-> <<>>,                      methods |-> {"GET"},  handler |-> "root"],
       [path |-> <<"health">>,              methods |-> {"GET"},  handler |-> "health_check"],
       [path |-> <<"services", "status">>,  methods |-> {"GET"},  handler |-> "services_status"],
       [path |-> <<"{service}", "{path:path}">>,
        methods |-> {"GET", "POST", "PUT", "DELETE", "PATCH"},    handler |-> "proxy"],
       [path |-> <<"stt", "transcribe">>,   methods |-> {"POST"}, handler |-> "stt_transcribe"],
       [path |-> <<"documents", "upload">>, methods |-> {"POST"}, handler |-> "documents_upload"] >>

\* does the route's path pattern match the request path
path_matches(pattern, path) ==
    IF pattern = <<"{service}", "{path:path}">>
    THEN Len(path) >= 2
    ELSE pattern = path

\* the router: the first route matching path and method handles the request;
\* a path that only routes of other methods match gives 405, no route 404
route(method, path) ==
    LET full == {i \in 1..Len(routes) :
                    path_matches(routes[i].path, path) /\ method \in routes[i].methods}
        partial == {i \in 1..Len(routes) : path_matches(routes[i].path, path)}
    IN  IF full # {} THEN routes[CHOOSE i \in full : \A j \in full : i <= j].handler
        ELSE IF partial # {} THEN "405" ELSE "404"

----------------------------------------------------------------------------
(* The environment: what a backend can do with an outbound call *)

BackendResponse(status_code, headers, content) ==
    [kind |-> "response", status_code |-> status_code, headers |-> headers,
     content |-> content, message |-> ""]

\* the call raised: httpx.ConnectError, httpx.TimeoutException, or another
BackendFailure(kind) ==
    [kind |-> kind, status_code |-> 0, headers |-> <<>>, content |-> Bytes(""),
     message |-> IF kind = "Exception" THEN "protocol error" ELSE kind]

\* header lists a backend answers with, in the letter case it chose
BackendHeaders ==
    { << <<"content-type", Str("application/json")>> >>,
      << <<"Content-Type", Str("audio/mpeg")>>, <<"Content-Length", Str("2")>> >>,
      << <<"Content-Encoding", Str("gzip")>>, <<"X-Backend", Str("b1")>> >>,
      << <<"Transfer-Encoding", Str("chunked")>>, <<"CONNECTION", Str("close")>>,
         <<"content-type", Str("text/html")>> >>,
      << <<"x-backend", Str("b2")>>, <<"CONTENT-LENGTH", Str("2")>>,
         <<"connection", Str("keep-alive")>> >>,
      <<>> }

BackendOutcomes ==
    {BackendResponse(st, h, c) :
        st \in {200, 404, 500}, h \in BackendHeaders, c \in {Json("a"), Bytes("b")}}
    \cup {BackendFailure(k) : k \in {"ConnectError", "TimeoutException", "Exception"}}

\* what the health endpoint of one backend can do
ProbeOutcomes ==
    {BackendResponse(200, <<>>, Json("up")), BackendResponse(200, <<>>, Bytes("up")),
     BackendResponse(503, <<>>, Json("down")), BackendFailure("ConnectError")}

HealthOutcomes == [DOMAIN SERVICES -> ProbeOutcomes]

----------------------------------------------------------------------------
(* Requests *)

NoFile == [filename |-> "None", content |-> Bytes(""), content_type |-> "None"]

NoRequest ==
    [method |-> "None", path |-> <<>>, client |-> "None", headers |-> <<>>,
     query |-> <<>>, body |-> Bytes(""), file |-> NoFile]

Clients == {"10.0.0.1", "10.0.0.2"}

Files ==
    {[filename |-> "a.wav", content |-> Bytes("riff"), content_type |-> "audio/wav"],
     [filename |-> "b.pdf", content |-> Bytes("pdf"), content_type |-> "application/pdf"]}

\* Authorization header values: no scheme separator, an empty token, another
\* scheme, tokens around the length verify_token tests, a doubled space
AuthValues ==
    {Str(""), Str("Bearer"), Val("Bearer", <<Tok(0)>>), Val("Basic", <<Tok(11)>>),
     Val("Bearer", <<Tok(0), Tok(11)>>)}
    \cup {Val("Bearer", <<Tok(n)>>) : n \in {1, 10, 11, MaxTokenLen}}

\* the requests clients send to the gateway
GatewayRequests ==
    [method : {"GET", "POST", "OPTIONS"},
     path   : {<<>>, <<"health">>, <<"services", "status">>, <<"docs">>,
               <<"openapi.json">>, <<"stt", "transcribe">>, <<"documents", "upload">>,
               <<"tts", "synthesize">>, <<"tts", "audio", "id1", "download">>,
               <<"unknownservice", "x">>},
     client : Clients,
     headers : {<<>>} \cup {<< <<"authorization", v>> >> : v \in AuthValues},
     query  : {<<>>},
     body   : {Bytes("")},
     file   : {NoFile} \cup Files]

\* header lines of a request, as the server hands them over (names lowered)
InboundLines ==
    {<<"host", Str("gateway:8000")>>, <<"content-length", Str("7")>>,
     <<"x-tag", Str("a")>>, <<"x-tag", Str("b")>>,
     <<"authorization", Val("Bearer", <<Tok(11)>>)>>}

\* the requests the generic route hands to proxy
ProxyRequests ==
    [method : {"GET", "POST", "PUT", "DELETE", "PATCH"},
     path   : {<<"stt", "transcribe">>, <<"tts", "audio", "id1", "download">>,
               <<"unknownservice", "x">>},
     client : {"10.0.0.1"},
     headers : SeqsUpTo(InboundLines, MaxHeaders),
     query  : {<<>>, << <<"language", "en">>, <<"page", "2">> >>},
     body   : {Bytes(""), Json("payload")},
     file   : {NoFile}]

\* the requests the upload routes hand to their handlers
UploadRequests(path) ==
    [method : {"POST"}, path : {path}, client : Clients, headers : {<<>>},
     query  : {<<>>, << <<"language", "en">> >>},
     body   : {Bytes("multipart")},
     file   : Files]

\* a query parameter with a default, as FastAPI binds it
query_param(request, name, default) ==
    IF \E i \in 1..Len(request.query) : request.query[i][1] = name
    THEN request.query[CHOOSE i \in 1..Len(request.query) : request.query[i][1] = name][2]
    ELSE default

----------------------------------------------------------------------------
(* call_next(request): the router and the handler it selects.  The result *)
(* is the set of responses the handler can give, one per behaviour of the *)
(* backends it calls.                                                     *)

call_next(request) ==
    LET handler == route(request.method, request.path)
    IN  CASE handler = "root" -> {root}
          [] handler = "health_check" -> {health_check}
          [] handler = "services_status" ->
                {services_status(h) : h \in HealthOutcomes}
          [] handler = "proxy" ->
                {proxy(request.path[1], Tail(request.path), request, b) :
                    b \in BackendOutcomes}
          [] handler = "stt_transcribe" ->
                IF request.file = NoFile
                THEN {[HTTPException(422, <<"Field required">>, <<>>)
                          EXCEPT !.handler = "stt_transcribe"]}
                ELSE {stt_transcribe(request.file, query_param(request, "language", "ar"), b) :
                         b \in BackendOutcomes}
          [] handler = "documents_upload" ->
                IF request.file = NoFile
                THEN {[HTTPException(422, <<"Field required">>, <<>>)
                          EXCEPT !.handler = "documents_upload"]}
                ELSE {documents_upload(request.file, b) : b \in BackendOutcomes}
          [] handler \in {"openapi", "swagger_ui"} ->
                {[JSONReturn(Json(handler), <<>>) EXCEPT !.handler = handler]}
          [] handler = "405" -> {HTTPException(405, <<"Method Not Allowed">>, <<>>)}
          [] OTHER -> {HTTPException(404, <<"Not Found">>, <<>>)}

----------------------------------------------------------------------------
(* The security middleware *)

\* the names bound in the module's namespace when a request arrives: its
\* imports, assignments and function definitions
module_globals ==
    {"FastAPI", "UploadFile", "File", "HTTPException", "Request", "Response",
     "CORSMiddleware", "JSONResponse", "httpx", "os", "time", "logging", "Optional",
     "logger", "app", "SERVICES", "JWT_SECRET", "JWT_ALGORITHM", "verify_token",
     "security_and_logging_middleware", "root", "health_check", "services_status",
     "proxy_request", "proxy", "stt_transcribe", "documents_upload"}

\* the call check_rate_limit(client_ip): the name is looked up when the call
\* is made; an unbound name raises NameError and the call yields no value
check_rate_limit(client_ip) ==
    IF "check_rate_limit" \in module_globals
    THEN [raised |-> "no", value |-> TRUE]
    ELSE [raised |-> "NameError", value |-> FALSE]

\* return len(token) > 10
verify_token(token) == Len(token) > 10

auth_exempt_paths ==
    {<<>>, <<"health">>, <<"services", "status">>, <<"docs">>, <<"openapi.json">>}

\* JSONResponse(status_code=, content={"detail": ...})
JSONResponse(status_code, detail) ==
    [kind |-> "JSONResponse", status |-> status_code, content |-> Json("detail"),
     headers |-> <<>>, media_type |-> Str("application/json"), detail |-> detail,
     calls |-> <<>>, handler |-> "none", log |-> <<>>]

\* not auth_header or not auth_header.startswith("Bearer ")
bearer_missing(auth_header) ==
    \/ auth_header = None
    \/ auth_header = Str("")
    \/ ~(auth_header.head = "Bearer" /\ Len(auth_header.tail) >= 1)

\* response.headers[name] = value: replaces the header or appends it
set_header(headers, name, value) ==
    IF \E i \in 1..Len(headers) : lower(headers[i][1]) = lower(name)
    THEN [i \in 1..Len(headers) |->
             IF lower(headers[i][1]) = lower(name) THEN <<headers[i][1], value>>
             ELSE headers[i]]
    ELSE Append(headers, <<name, value>>)

\* stage 3: the two headers set on the response of call_next, and the log line
instrument(request, response) ==
    [response EXCEPT
        !.headers = set_header(set_header(@, "X-Process-Time", Str("elapsed")),
                               "X-Content-Type-Options", Str("nosniff")),
        !.log = Append(@, <<request.method, request.path, response.status>>)]

security_and_logging_middleware(request) ==
    LET client_ip == IF request.client # "None" THEN request.client ELSE "unknown"
        allowed == check_rate_limit(client_ip)
        auth_header == get(request.headers, "authorization")
    IN  IF allowed.raised # "no" THEN {Unhandled(allowed.raised)}
        ELSE IF ~allowed.value
        THEN {JSONResponse(429, <<"Rate limit exceeded. Security policy enforcement.">>)}
        ELSE IF request.path \notin auth_exempt_paths /\ bearer_missing(auth_header)
        THEN {JSONResponse(401, <<"Unauthorized: JWT Token required (Phase 3 Compliance)">>)}
        ELSE IF request.path \notin auth_exempt_paths /\ ~verify_token(auth_header.tail[1])
        THEN {JSONResponse(403, <<"Forbidden: Invalid Security Token">>)}
        ELSE {instrument(request, r) : r \in call_next(request)}

----------------------------------------------------------------------------
(* The gateway process runs no Kafka client *)

NoServiceProcess ==
    /\ kafka_handler = [bootstrap_servers |-> "None", producer |-> None]
    /\ proc = [pc |-> "none"]
    /\ broker = [up |-> FALSE]

----------------------------------------------------------------------------
(* The gateway serving requests: one request at a time is received, taken *)
(* through the middleware, and answered.                                  *)

Init ==
    /\ pc = "idle"
    /\ req = NoRequest
    /\ resp = NoResponse
    /\ received = [c \in Clients |-> 0]
    /\ NoServiceProcess

\* a client's request arrives
Receive ==
    /\ pc = "idle"
    /\ \E r \in GatewayRequests :
          /\ received[r.client] < MaxRequests
          /\ req' = r
          /\ received' = [received EXCEPT ![r.client] = @ + 1]
    /\ pc' = "received"
    /\ UNCHANGED <<resp, kafka_vars>>

\* the application serves it: the middleware and whatever it calls
Serve ==
    /\ pc = "received"
    /\ resp' \in security_and_logging_middleware(req)
    /\ pc' = "responded"
    /\ UNCHANGED <<req, received, kafka_vars>>

\* the response is sent and the request/response cycle ends
Finish ==
    /\ pc = "responded"
    /\ pc' = "idle"
    /\ req' = NoRequest
    /\ resp' = NoResponse
    /\ UNCHANGED <<received, kafka_vars>>

Next == Receive \/ Serve \/ Finish

Spec == Init /\ [][Next]_vars

----------------------------------------------------------------------------
(* The route handlers called on their own, with every argument the route  *)
(* can bind: the contract of proxy_request and of the upload handlers.    *)

InitHandlers ==
    /\ \/ pc = "proxy" /\ req \in ProxyRequests
       \/ pc = "stt_transcribe" /\ req \in UploadRequests(<<"stt", "transcribe">>)
       \/ pc = "documents_upload" /\ req \in UploadRequests(<<"documents", "upload">>)
    /\ resp = NoResponse
    /\ received = [c \in Clients |-> 0]
    /\ NoServiceProcess

CallProxy ==
    /\ pc = "proxy"
    /\ \E b \in BackendOutcomes :
          resp' = proxy(req.path[1], Tail(req.path), req, b)
    /\ pc' = "returned"
    /\ UNCHANGED <<req, received, kafka_vars>>

CallSttTranscribe ==
    /\ pc = "stt_transcribe"
    /\ \E b \in BackendOutcomes :
          resp' = stt_transcribe(req.file, query_param(req, "language", "ar"), b)
    /\ pc' = "returned"
    /\ UNCHANGED <<req, received, kafka_vars>>

CallDocumentsUpload ==
    /\ pc = "documents_upload"
    /\ \E b \in BackendOutcomes : resp' = documents_upload(req.file, b)
    /\ pc' = "returned"
    /\ UNCHANGED <<req, received, kafka_vars>>

NextHandlers == CallProxy \/ CallSttTranscribe \/ CallDocumentsUpload

SpecHandlers == InitHandlers /\ [][NextHandlers]_vars

----------------------------------------------------------------------------
(* The application behind the middleware: call_next applied to a request, *)
(* that is the router and the handler it selects.                         *)

\* the requests the router is handed
AppRequests ==
    [method : {"GET", "POST", "PUT", "DELETE", "PATCH", "HEAD", "OPTIONS"},
     path   : {<<>>, <<"health">>, <<"services", "status">>, <<"docs">>,
               <<"openapi.json">>, <<"stt", "transcribe">>, <<"documents", "upload">>,
               <<"tts", "synthesize">>, <<"unknownservice", "x">>},
     client : {"10.0.0.1"},
     headers : {<< <<"authorization", Val("Bearer", <<Tok(11)>>)>> >>},
     query  : {<<>>, << <<"language", "en">> >>},
     body   : {Bytes("multipart")},
     file   : {NoFile,
               [filename |-> "a.wav", content |-> Bytes("riff"),
                content_type |-> "audio/wav"]}]

InitApp ==
    /\ pc = "call_next"
    /\ req \in AppRequests
    /\ resp = NoResponse
    /\ received = [c \in Clients |-> 0]
    /\ NoServiceProcess

Dispatch ==
    /\ pc = "call_next"
    /\ resp' \in call_next(req)
    /\ pc' = "dispatched"
    /\ UNCHANGED <<req, received, kafka_vars>>

NextApp == Dispatch

SpecApp == InitApp /\ [][NextApp]_vars

----------------------------------------------------------------------------
(* The event-bus client of the services (services/common/kafka_handler.py), *)
(* a service process that publishes through it, and a worker process that   *)
(* subscribes through it.                                                   *)

\* retries = 5
Retries == 5

\* time.sleep(5)
RetryDelay == 5

\* requests a service process handles in one behaviour
MaxEvents == 2

KafkaProducer == Str("KafkaProducer")

\* the module-level name kafka_handler before the module body has run
NoKafkaHandler == [bootstrap_servers |-> "None", producer |-> None]

\* __init__ connecting at construction
KafkaHandler_eager(bootstrap_servers) ==
    [bootstrap_servers |-> bootstrap_servers, producer |-> KafkaProducer]

\* KafkaHandler.__init__
KafkaHandler(bootstrap_servers) ==
    [bootstrap_servers |-> bootstrap_servers, producer |-> None]

\* the loop keeping its count after a failed attempt
retries_kept(retries) == retries

\* retries -= 1
retries_after_failure(retries) == retries - 1

\* an except clause that lets the exception through
send_message_reraise(e) == [raised |-> Str(e), logged |-> <<>>]

\* send_message: except Exception as e: logger.error(...)
send_message_except(e) ==
    [raised |-> None, logged |-> <<"Error sending message to Kafka: ", e>>]

\* the handlers' own try/except around kafka_handler.send_message(...)
handler_except(e) == None

\* KafkaProducer(...): the constructor raises when no broker answers
connect_outcome(up) == IF up THEN "connected" ELSE "NoBrokersAvailable"

\* producer.send(topic, message): queues the record; with the broker away
\* it queues on cached metadata or raises once the metadata wait runs out
send_outcomes(up) == IF up THEN {"queued"} ELSE {"queued", "KafkaTimeoutError"}

\* producer.flush(): returns when every queued record is acknowledged or has
\* failed; with the broker away the records expire or the call raises
flush_outcomes(up) == IF up THEN {"delivered"} ELSE {"expired", "KafkaTimeoutError"}

\* KafkaConsumer(topic, ...): the constructor raises when no broker answers
get_consumer(topic, group_id, up) ==
    IF up
    THEN [raised |-> None, consumer |-> <<topic, group_id>>]
    ELSE [raised |-> Str("NoBrokersAvailable"), consumer |-> <<>>]

\* the handlers of the services that publish an event: the store each one
\* writes before publishing and the topic it publishes to
Operations ==
    {[handler |-> "upload_document",   store |-> "documents",
      topic |-> "document.processed"],
     [handler |-> "send_message",      store |-> "conversations",
      topic |-> "chat.message"],
     [handler |-> "generate_quiz",     store |-> "quizzes",
      topic |-> "quiz.generated"],
     [handler |-> "transcribe_audio",  store |-> "transcriptions",
      topic |-> "audio.transcription.completed"],
     [handler |-> "synthesize_speech", store |-> "audio_storage",
      topic |-> "audio.generation.completed"]}

\* the topic and consumer group each worker subscribes to
Subscriptions ==
    {<<"document.uploaded", "doc_worker_group">>,
     <<"audio.transcription.requested", "stt_worker_group">>,
     <<"chat.message", "chat_worker_group">>,
     <<"audio.generation.requested", "tts_worker_group">>,
     <<"quiz.requested", "quiz_worker_group">>}

\* the keys each worker reads from message.value, by subscribed topic
\* (data.get(key) without a default)
keys_read(topic) ==
    CASE topic = "document.uploaded" -> {"id", "s3_path"}
      [] topic = "audio.transcription.requested" -> {"id", "s3_path"}
      [] topic = "chat.message" -> {"conversation_id", "message", "document_id"}
      [] topic = "audio.generation.requested" -> {"id", "text"}
      [] topic = "quiz.requested" -> {"id", "document_id"}
      [] OTHER -> {}

\* every send_message call of the services and the workers: the topic and
\* the keys of the payload
Publications ==
    {[topic |-> "chat.message",
      keys |-> {"conversation_id", "user_message", "assistant_response",
                "document_id", "timestamp"}],
     [topic |-> "audio.generation.completed",
      keys |-> {"id", "text_preview", "language", "status"}],
     [topic |-> "audio.generation.completed", keys |-> {"id", "s3_path", "status"}],
     [topic |-> "quiz.generated",
      keys |-> {"id", "topic", "num_questions", "document_id"}],
     [topic |-> "quiz.generated", keys |-> {"id", "document_id", "status"}],
     [topic |-> "document.processed",
      keys |-> {"id", "filename", "text", "word_count"}],
     [topic |-> "document.processed", keys |-> {"id", "text", "s3_path"}],
     [topic |-> "notes.generated", keys |-> {"doc_id", "notes_s3_path"}],
     [topic |-> "audio.transcription.completed",
      keys |-> {"id", "filename", "text_preview", "language"}],
     [topic |-> "audio.transcription.completed", keys |-> {"id", "text", "status"}]}

\* the response model a handler returns, built from what it computed
\* before publishing
response_of(op, id) == [status |-> 200, handler |-> op.handler, id |-> id]

\* the event a handler publishes
payload_of(op, id) == [id |-> id, handler |-> op.handler]

NoOperation == [handler |-> "None", store |-> "None", topic |-> "None"]

NoGateway ==
    /\ pc = "none"
    /\ req = NoRequest
    /\ resp = NoResponse
    /\ received = [c \in Clients |-> 0]

\* a service process (main.py of a service) or a worker process (worker.py)
\* starts; the broker is reachable or not
InitKafka ==
    /\ NoGateway
    /\ kafka_handler = NoKafkaHandler
    /\ broker \in [up : BOOLEAN, buffer : {<<>>}, log : {<<>>}, connects : {0}]
    /\ proc \in [pc : {"start"}, role : {"service", "worker"}, op : {NoOperation},
                  id : {0}, topic : {"None"}, payload : {payload_of(NoOperation, 0)},
                  response : {response_of(NoOperation, 0)},
                  result : {response_of(NoOperation, 0)},
                  retries : {0}, attempts : {0}, slept : {0}, producer : {None},
                  sends : {0}, flushed : {FALSE}, down_seen : {FALSE},
                  raised : {None}, logged : {<<>>}, calls : {0}, events : {0},
                  store : {{}}, consumer : {<<>>}, dropped : {{}}]

\* kafka_handler = KafkaHandler(KAFKA_BOOTSTRAP_SERVERS), at import
Construct ==
    /\ proc.pc = "start"
    /\ kafka_handler' = KafkaHandler("kafka:9092")
    /\ proc' = [proc EXCEPT !.pc = "idle"]
    /\ UNCHANGED <<gateway_vars, broker>>

\* the broker becomes unreachable or reachable again
BrokerChange ==
    /\ broker' = [broker EXCEPT !.up = ~broker.up]
    /\ proc' = [proc EXCEPT !.down_seen = proc.down_seen \/ broker.up]
    /\ UNCHANGED <<gateway_vars, kafka_handler>>

\* a handler of a service runs up to its publish: it stores its state,
\* computes what it will answer and calls kafka_handler.send_message
HandleRequest ==
    /\ proc.role = "service"
    /\ proc.pc = "idle"
    /\ proc.events < MaxEvents
    /\ \E op \in Operations :
          LET id == proc.events + 1
          IN  proc' = [proc EXCEPT !.pc = "get_producer", !.op = op, !.id = id,
                                   !.store = proc.store \cup {<<op.store, id>>},
                                   !.response = response_of(op, id),
                                   !.topic = op.topic,
                                   !.payload = payload_of(op, id),
                                   !.calls = proc.calls + 1,
                                   !.sends = 0, !.flushed = FALSE,
                                   !.attempts = 0, !.slept = 0, !.retries = 0,
                                   !.producer = None,
                                   !.down_seen = ~broker.up,
                                   !.raised = None, !.logged = <<>>]
    /\ UNCHANGED <<gateway_vars, kafka_handler, broker>>

\* a client that tries to construct its producer in its first call only
GetProducer_once ==
    /\ proc.pc = "get_producer"
    /\ proc' = IF kafka_handler.producer = None /\ proc.calls = 1
               THEN [proc EXCEPT !.pc = "while", !.retries = Retries]
               ELSE [proc EXCEPT !.pc = "got_producer"]
    /\ UNCHANGED <<gateway_vars, kafka_handler, broker>>

\* get_producer: if not self.producer: retries = 5
GetProducer ==
    /\ proc.pc = "get_producer"
    /\ proc' = IF kafka_handler.producer = None
               THEN [proc EXCEPT !.pc = "while", !.retries = Retries]
               ELSE [proc EXCEPT !.pc = "got_producer"]
    /\ UNCHANGED <<gateway_vars, kafka_handler, broker>>

\* one iteration of while retries > 0: the try and its except clause
Connect ==
    /\ proc.pc = "while"
    /\ proc.retries > 0
    /\ broker' = [broker EXCEPT !.connects = broker.connects + 1]
    /\ IF connect_outcome(broker.up) = "connected"
       THEN /\ kafka_handler' = [kafka_handler EXCEPT !.producer = KafkaProducer]
            /\ proc' = [proc EXCEPT !.pc = "got_producer",
                                     !.attempts = proc.attempts + 1]
       ELSE /\ proc' = [proc EXCEPT !.pc = "sleep",
                                     !.attempts = proc.attempts + 1,
                                     !.retries = retries_after_failure(proc.retries)]
            /\ UNCHANGED kafka_handler
    /\ UNCHANGED gateway_vars

\* time.sleep(5)
Sleep ==
    /\ proc.pc = "sleep"
    /\ proc' = [proc EXCEPT !.pc = "while", !.slept = proc.slept + RetryDelay]
    /\ UNCHANGED <<gateway_vars, kafka_handler, broker>>

\* the loop ends with retries = 0: logger.error(...), nothing raised
GiveUp ==
    /\ proc.pc = "while"
    /\ proc.retries <= 0
    /\ proc' = [proc EXCEPT !.pc = "got_producer",
                             !.logged = <<"Could not connect to Kafka after multiple retries">>]
    /\ UNCHANGED <<gateway_vars, kafka_handler, broker>>

\* return self.producer; send_message: if producer: ... else: logger.error(...)
GotProducer ==
    /\ proc.pc = "got_producer"
    /\ proc' = IF kafka_handler.producer # None
               THEN [proc EXCEPT !.pc = "send", !.producer = kafka_handler.producer]
               ELSE [proc EXCEPT !.pc = "return",
                                 !.dropped = @ \cup {<<proc.topic, proc.payload>>},
                                 !.logged = <<"Cannot send message to ", proc.topic,
                                              ": No producer available">>]
    /\ UNCHANGED <<gateway_vars, kafka_handler, broker>>

\* producer.send(topic, message)
Send ==
    /\ proc.pc = "send"
    /\ \E outcome \in send_outcomes(broker.up) :
          IF outcome = "queued"
          THEN /\ broker' = [broker EXCEPT
                                !.buffer = Append(broker.buffer,
                                                  <<proc.topic, proc.payload>>)]
               /\ proc' = [proc EXCEPT !.pc = "flush", !.sends = proc.sends + 1]
          ELSE /\ proc' = [proc EXCEPT !.pc = "return",
                                        !.raised = send_message_except(outcome).raised,
                                        !.logged = send_message_except(outcome).logged]
               /\ UNCHANGED broker
    /\ UNCHANGED <<gateway_vars, kafka_handler>>

\* send_message without the call to producer.flush()
Flush_skipped ==
    /\ proc.pc = "flush"
    /\ proc' = [proc EXCEPT !.pc = "return",
                             !.logged = <<"Message sent to topic ", proc.topic>>]
    /\ UNCHANGED <<gateway_vars, kafka_handler, broker>>

\* producer.flush(); logger.info(...)
Flush ==
    /\ proc.pc = "flush"
    /\ \E outcome \in flush_outcomes(broker.up) :
          CASE outcome = "delivered" ->
                 /\ broker' = [broker EXCEPT !.log = broker.log \o broker.buffer,
                                              !.buffer = <<>>]
                 /\ proc' = [proc EXCEPT !.pc = "return", !.flushed = TRUE,
                                          !.logged = <<"Message sent to topic ",
                                                       proc.topic>>]
            [] outcome = "expired" ->
                 /\ broker' = [broker EXCEPT !.buffer = <<>>]
                 /\ proc' = [proc EXCEPT !.pc = "return", !.flushed = TRUE,
                                          !.logged = <<"Message sent to topic ",
                                                       proc.topic>>]
            [] OTHER ->
                 /\ proc' = [proc EXCEPT !.pc = "return",
                                          !.raised = send_message_except(outcome).raised,
                                          !.logged = send_message_except(outcome).logged]
                 /\ UNCHANGED broker
    /\ UNCHANGED <<gateway_vars, kafka_handler>>

\* send_message is over; the handler's own except clause takes whatever it
\* raised, and the handler returns its response
Return ==
    /\ proc.pc = "return"
    /\ proc' = [proc EXCEPT !.pc = "idle", !.events = proc.events + 1,
                             !.result = IF handler_except(proc.raised) = None
                                        THEN proc.response
                                        ELSE [proc.response EXCEPT !.status = 500]]
    /\ UNCHANGED <<gateway_vars, kafka_handler, broker>>

\* a worker's process_*_events: consumer = kafka_handler.get_consumer(...);
\* an exception of the call leaves the function and ends the process
Subscribe ==
    /\ proc.role = "worker"
    /\ proc.pc = "idle"
    /\ \E sub \in Subscriptions :
          LET got == get_consumer(sub[1], sub[2], broker.up)
          IN  proc' = [proc EXCEPT !.pc = IF got.raised = None THEN "polling"
                                                               ELSE "terminated",
                                   !.topic = sub[1],
                                   !.raised = got.raised,
                                   !.consumer = got.consumer]
    /\ UNCHANGED <<gateway_vars, kafka_handler, broker>>

\* the steps of the process itself
ProcessStep ==
    \/ Construct \/ HandleRequest \/ GetProducer \/ Connect \/ Sleep \/ GiveUp
    \/ GotProducer \/ Send \/ Flush \/ Return \/ Subscribe

NextKafka == ProcessStep \/ BrokerChange

SpecKafka == InitKafka /\ [][NextKafka]_vars

\* the interpreter keeps running the process: a step that stays possible is
\* taken
SpecKafkaFair == SpecKafka /\ WF_vars(ProcessStep)

----------------------------------------------------------------------------
(* Requests in flight in one service process, sharing its KafkaHandler.   *)
(* The handlers are coroutines on one event loop; get_producer and        *)
(* send_message are plain functions without an await, and there is no     *)
(* lock around self.producer.                                             *)

\* handler coroutines in flight at once
Tasks == {1, 2}

\* no coroutine is running
NoTask == 0

\* the n-th KafkaProducer object constructed in the process
KafkaProducerAt(n) == Val("KafkaProducer", <<Tok(n)>>)

\* callers on threads of their own, running whenever they like
may_run_threaded(running, t) == TRUE

\* the event loop runs one coroutine at a time, up to its next await
may_run(running, t) == running \in {NoTask, t}

InitTasks ==
    /\ NoGateway
    /\ kafka_handler = KafkaHandler("kafka:9092")
    /\ broker \in [up : BOOLEAN, constructed : {0}]
    /\ proc = [running |-> NoTask,
               task |-> [t \in Tasks |-> [pc |-> "idle", retries |-> 0,
                                          calls |-> 0, producer |-> None]]]

\* a request arrives: its handler runs up to its first await
TaskStart(t) ==
    /\ may_run(proc.running, t)
    /\ proc.task[t].pc = "idle"
    /\ proc.task[t].calls < MaxEvents
    /\ proc' = [proc EXCEPT !.running = NoTask, !.task[t].pc = "awaiting"]
    /\ UNCHANGED <<gateway_vars, kafka_handler, broker>>

\* the handler is resumed and reaches kafka_handler.send_message(...):
\* try: producer = self.get_producer()
TaskCall(t) ==
    /\ may_run(proc.running, t)
    /\ proc.task[t].pc = "awaiting"
    /\ proc' = [proc EXCEPT !.running = t, !.task[t].pc = "get_producer",
                             !.task[t].calls = @ + 1, !.task[t].producer = None]
    /\ UNCHANGED <<gateway_vars, kafka_handler, broker>>

\* if not self.producer: retries = 5
TaskGetProducer(t) ==
    /\ may_run(proc.running, t)
    /\ proc.task[t].pc = "get_producer"
    /\ proc' = IF kafka_handler.producer = None
               THEN [proc EXCEPT !.task[t].pc = "while", !.task[t].retries = Retries]
               ELSE [proc EXCEPT !.task[t].pc = "got_producer"]
    /\ UNCHANGED <<gateway_vars, kafka_handler, broker>>

\* one iteration of the loop: self.producer = KafkaProducer(...) and break,
\* or the except clause with its retries -= 1 and time.sleep(5)
TaskConnect(t) ==
    /\ may_run(proc.running, t)
    /\ proc.task[t].pc = "while"
    /\ proc.task[t].retries > 0
    /\ IF connect_outcome(broker.up) = "connected"
       THEN /\ broker' = [broker EXCEPT !.constructed = @ + 1]
            /\ kafka_handler' = [kafka_handler EXCEPT
                                    !.producer = KafkaProducerAt(broker.constructed + 1)]
            /\ proc' = [proc EXCEPT !.task[t].pc = "got_producer"]
       ELSE /\ proc' = [proc EXCEPT
                           !.task[t].retries = retries_after_failure(proc.task[t].retries)]
            /\ UNCHANGED <<kafka_handler, broker>>
    /\ UNCHANGED gateway_vars

\* the loop ends with retries = 0
TaskGiveUp(t) ==
    /\ may_run(proc.running, t)
    /\ proc.task[t].pc = "while"
    /\ proc.task[t].retries <= 0
    /\ proc' = [proc EXCEPT !.task[t].pc = "got_producer"]
    /\ UNCHANGED <<gateway_vars, kafka_handler, broker>>

\* return self.producer; the rest of send_message and of the handler run
\* with that producer and the handler returns
TaskReturn(t) ==
    /\ may_run(proc.running, t)
    /\ proc.task[t].pc = "got_producer"
    /\ proc' = [proc EXCEPT !.running = NoTask, !.task[t].pc = "idle",
                             !.task[t].producer = kafka_handler.producer]
    /\ UNCHANGED <<gateway_vars, kafka_handler, broker>>

\* the broker becomes unreachable or reachable again
TaskBrokerChange ==
    /\ broker' = [broker EXCEPT !.up = ~broker.up]
    /\ UNCHANGED <<gateway_vars, kafka_handler, proc>>

NextTasks ==
    \/ \E t \in Tasks :
          \/ TaskStart(t) \/ TaskCall(t) \/ TaskGetProducer(t) \/ TaskConnect(t)
          \/ TaskGiveUp(t) \/ TaskReturn(t)
    \/ TaskBrokerChange

SpecTasks == InitTasks /\ [][NextTasks]_vars

----------------------------------------------------------------------------
(* services_status step by step: the loop over SERVICES.items(), each     *)
(* probe awaited inside the loop body.                                    *)

InitStatus ==
    /\ pc = "for"
    /\ req = [NoRequest EXCEPT !.method = "GET", !.path = <<"services", "status">>]
    /\ resp = NoResponse
    /\ received = [c \in Clients |-> 0]
    /\ kafka_handler = NoKafkaHandler
    /\ broker = [up |-> FALSE]
    /\ proc = [i |-> 1, in_flight |-> {}, issued |-> <<>>, status |-> <<>>]

\* for name, url in SERVICES.items(): ... client.get(f"{url}/health") is sent
ProbeIssue ==
    /\ pc = "for"
    /\ proc.i <= Len(service_order)
    /\ proc' = [proc EXCEPT !.in_flight = @ \cup {service_order[proc.i]},
                             !.issued = Append(@, service_order[proc.i])]
    /\ pc' = "await"
    /\ UNCHANGED <<req, resp, received, kafka_handler, broker>>

\* response = await client.get(...) completes or raises, and the loop body
\* writes status[name]
ProbeComplete ==
    /\ pc = "await"
    /\ \E outcome \in ProbeOutcomes :
          LET name == service_order[proc.i]
          IN  /\ proc' = [proc EXCEPT !.i = @ + 1,
                                       !.in_flight = @ \ {name},
                                       !.status = Append(@, probe_entry(name, outcome))]
              /\ resp' = [resp EXCEPT
                             !.calls = Append(@, OutboundCall("GET",
                                          <<SERVICES[name], "health">>, None, <<>>,
                                          <<>>, None, 5, outcome))]
    /\ pc' = "for"
    /\ UNCHANGED <<req, received, kafka_handler, broker>>

\* return {"services": status, "gateway": "operational"}
StatusReturn ==
    /\ pc = "for"
    /\ proc.i > Len(service_order)
    /\ resp' = [JSONReturn([type |-> "json", value |-> proc.status], resp.calls)
                    EXCEPT !.handler = "services_status"]
    /\ pc' = "returned"
    /\ UNCHANGED <<req, received, kafka_vars>>

NextStatus == ProbeIssue \/ ProbeComplete \/ StatusReturn

SpecStatus == InitStatus /\ [][NextStatus]_vars

----------------------------------------------------------------------------
(* Properties *)

\* the request was answered by the gateway (Spec)
Responded == pc = "responded"

\* a handler called on its own has returned (SpecHandlers)
Returned == pc = "returned"

\* the proxy handler has returned after exactly one outbound call
Forwarded == Returned /\ resp.handler = "proxy" /\ Len(resp.calls) = 1

\* the request's path is outside the allow-list of the middleware
Protected(r) ==
    r.path \notin {<<>>, <<"health">>, <<"services", "status">>, <<"docs">>,
                   <<"openapi.json">>}

\* the Authorization value has the shape "Bearer <token>", the token not empty
WellFormedBearer(v) ==
    /\ v.head = "Bearer"
    /\ Len(v.tail) = 1
    /\ Len(v.tail[1]) >= 1

\* the request carries "Bearer <token>" with a token of more than 10 characters
Authenticated(r) ==
    LET v == get(r.headers, "authorization")
    IN  WellFormedBearer(v) /\ Len(v.tail[1]) >= 11

\* C1: for every service name that is not a key of the registry,
\* proxy_request answers 404 Not Found and issues no outbound call.
C1_UnknownServiceNotFound ==
    (Returned /\ resp.handler = "proxy" /\ req.path[1] \notin DOMAIN SERVICES)
        => /\ resp.status = 404
           /\ resp.kind = "HTTPException"
           /\ Len(resp.calls) = 0

C1_Witness ==
    /\ Returned
    /\ resp.handler = "proxy"
    /\ req.path[1] = "unknownservice"
    /\ resp.status = 404

\* C2: every request on a protected path without a well-formed
\* "Bearer <token>" Authorization header (none, another shape, or an empty
\* token) is answered 401 and never reaches a handler.
C2_MalformedUnauthorized ==
    (Responded /\ Protected(req)
       /\ ~WellFormedBearer(get(req.headers, "authorization")))
        => resp.status = 401 /\ resp.handler = "none"

\* C3: a request on a protected path with a well-formed bearer header is
\* answered 403 exactly when its token has 10 characters or fewer, and a
\* request so rejected never reaches a handler.
C3_ShortTokenForbidden ==
    (Responded /\ Protected(req)
       /\ WellFormedBearer(get(req.headers, "authorization")))
        => LET token == get(req.headers, "authorization").tail[1]
           IN  /\ (resp.status = 403) <=> (Len(token) <= 10)
               /\ (Len(token) <= 10) => resp.handler = "none"

\* C4: once a client has sent more requests than the ceiling, each further
\* request of that client is answered 429 and reaches neither the
\* authentication stage nor a handler.
C4_OverCeilingTooManyRequests ==
    (Responded /\ received[req.client] > RateCeiling)
        => /\ resp.status = 429
           /\ resp.handler = "none"

\* C5: a GET of an allow-listed path is never answered 429, 401 or 403 and
\* always reaches its handler, whatever its headers and however many
\* requests the client has sent.
C5_AllowListBypasses ==
    (Responded /\ ~Protected(req) /\ req.method = "GET")
        => /\ resp.status \notin {429, 401, 403}
           /\ resp.handler \in {"root", "health_check", "services_status",
                                "swagger_ui", "openapi"}

\* C6: GET /unknownservice/x is answered 404, with or without an
\* Authorization header.
C6_UnknownServiceScenario ==
    (Responded /\ req.method = "GET" /\ req.path = <<"unknownservice", "x">>)
        => resp.status = 404

\* C7: for a registered service the one outbound call goes to
\* <baseURL>/api/<service>/<path> with the inbound method, query parameters
\* and body, and with every inbound header line except those named Host and
\* Content-Length, which are not forwarded.
C7_ForwardedVerbatim ==
    (Returned /\ resp.handler = "proxy" /\ req.path[1] \in DOMAIN SERVICES)
        => /\ Len(resp.calls) = 1
           /\ LET call == resp.calls[1]
              IN  /\ call.url = <<SERVICES[req.path[1]], "api", req.path[1]>>
                                   \o Tail(req.path)
                  /\ call.method = req.method
                  /\ call.params = req.query
                  /\ call.content = req.body
                  /\ \A i \in 1..Len(req.headers) :
                        req.headers[i][1] \notin {"host", "content-length"}
                            => \E j \in 1..Len(call.headers) :
                                  call.headers[j] = req.headers[i]
                  /\ \A j \in 1..Len(call.headers) :
                        /\ call.headers[j][1] \notin {"host", "content-length"}
                        /\ \E i \in 1..Len(req.headers) :
                              req.headers[i] = call.headers[j]

\* what the code does where C7 fails: of the lines sharing a header name,
\* the outbound call carries the first one received and no other
ForwardedFirstValues ==
    (Returned /\ resp.handler = "proxy" /\ req.path[1] \in DOMAIN SERVICES)
        => /\ Len(resp.calls) = 1
           /\ \A i \in 1..Len(req.headers) :
                 LET line == req.headers[i]
                 IN  (\E j \in 1..Len(resp.calls[1].headers) :
                         resp.calls[1].headers[j] = line)
                        <=> /\ line[2] = get(req.headers, line[1])
                            /\ line[1] \notin {"host", "content-length"}

ProxyFailureStatus(outcome) ==
    CASE outcome.kind = "ConnectError" -> 503
      [] outcome.kind = "TimeoutException" -> 504
      [] OTHER -> 500

\* C9: a request with a valid-length token for a registered service is
\* forwarded, and a failure of the outbound call is answered with exactly
\* one status: 503 for a connection failure, 504 for a timeout, 500 with the
\* failure's message for any other; so with the backend down it ends in 503.
C9_FailureClassified ==
    (Responded /\ req.method = "GET" /\ Len(req.path) >= 2
       /\ req.path # <<"services", "status">>
       /\ req.path[1] \in DOMAIN SERVICES /\ Authenticated(req))
        => /\ resp.handler = "proxy"
           /\ Len(resp.calls) = 1
           /\ resp.calls[1].outcome.kind # "response"
                 => resp.status = ProxyFailureStatus(resp.calls[1].outcome)

\* the classification of C9 on proxy_request called on its own
ProxyFailureClassified ==
    (Forwarded /\ resp.calls[1].outcome.kind # "response")
        => /\ resp.status = ProxyFailureStatus(resp.calls[1].outcome)
           /\ resp.status = 500 => resp.detail = <<resp.calls[1].outcome.message>>

\* C10: on every forwarding path, the generic proxy and both upload
\* handlers, a timeout of the outbound call is answered 504.
C10_TimeoutGatewayTimeout ==
    (Returned /\ Len(resp.calls) = 1
       /\ resp.calls[1].outcome.kind = "TimeoutException")
        => resp.status = 504


\* the router has dispatched the request and the selected handler has returned
Dispatched == pc = "dispatched"

\* the two upload endpoints of the gateway
upload_paths == {<<"stt", "transcribe">>, <<"documents", "upload">>}

\* C11: a POST to /stt/transcribe or /documents/upload is dispatched to the
\* upload adapter of that path and never to the generic reverse-proxy handler;
\* the generic handler only receives paths that are not an upload endpoint.
C11_UploadsReachAdapter ==
    Dispatched =>
        /\ (req.method = "POST" /\ req.path = <<"stt", "transcribe">>)
              => resp.handler = "stt_transcribe"
        /\ (req.method = "POST" /\ req.path = <<"documents", "upload">>)
              => resp.handler = "documents_upload"
        /\ resp.handler = "proxy" => req.path \notin upload_paths

\* C13: for every HTTP method and every path /{service}/{path...} of a
\* registered service (the upload endpoints aside), the request is forwarded
\* to the backend with that same method; the gateway refuses no method.
C13_EveryMethodForwarded ==
    (/\ Dispatched
     /\ Len(req.path) >= 2
     /\ req.path[1] \in DOMAIN SERVICES
     /\ req.path \notin upload_paths)
        => /\ resp.handler = "proxy"
           /\ Len(resp.calls) = 1
           /\ resp.calls[1].method = req.method

\* an upload adapter, called on its own, has returned
Uploaded == Returned /\ resp.handler \in {"stt_transcribe", "documents_upload"}

StatusReturned == Dispatched /\ resp.handler = "services_status"

\* C14: services_status returns exactly one entry per registered service,
\* and the entries classified "unreachable" are exactly those of the services
\* whose probe could not reach them.
C14_ExactlyUnreachable ==
    StatusReturned =>
        LET status == resp.content.value
        IN  /\ resp.kind = "Response"
            /\ Len(status) = Cardinality(DOMAIN SERVICES)
            /\ {status[i][1] : i \in 1..Len(status)} = DOMAIN SERVICES
            /\ \A i \in 1..Len(status) :
                  status[i][2] = "unreachable"
                      <=> resp.calls[i].outcome.kind # "response"

\* C15: each probe is classified by its own outcome: every HTTP 200 answer
\* gives "healthy" with the backend's payload, every other status gives
\* "unhealthy" with the status code, and only an exception of the probe gives
\* "unreachable" with the error text.
C15_ProbeClassification ==
    StatusReturned =>
        \A i \in 1..Len(resp.calls) :
            LET outcome == resp.calls[i].outcome
                entry == resp.content.value[i]
            IN  IF outcome.kind = "response"
                THEN IF outcome.status_code = 200
                     THEN entry[2] = "healthy" /\ entry[3] = outcome.content.value
                     ELSE entry[2] = "unhealthy" /\ entry[3] = outcome.status_code
                ELSE entry[2] = "unreachable" /\ entry[3] = outcome.message

\* send_message is at its end: the next step goes back to the handler
SendMessageOver == proc.pc = "return"

\* a handler of a service has answered at least one request
Answered == proc.role = "service" /\ proc.pc = "idle" /\ proc.events > 0

\* the records the broker holds that carry the payload of the current call
delivered ==
    {i \in 1..Len(broker.log) : broker.log[i] = <<proc.topic, proc.payload>>}

\* C16: send_message never raises to its caller, whether the broker is
\* reachable, unreachable at construction, or fails during send or flush;
\* a handler that publishes an event returns the same result and keeps the
\* same stored state whether the publish succeeded or failed.
C16_PublishNeverPropagates ==
    /\ SendMessageOver => proc.raised = None
    /\ proc.calls > 0 => <<proc.op.store, proc.id>> \in proc.store
    /\ Answered => proc.result = response_of(proc.op, proc.id)

\* a handler answered although its event never reached the broker
C16_Witness ==
    /\ Answered
    /\ delivered = {}
    /\ proc.result.status = 200
    /\ <<proc.op.store, proc.id>> \in proc.store

\* C17: with the broker reachable throughout the call, send_message hands
\* exactly one record with the payload to the producer for the topic and
\* returns only after the flush: the record is with the broker, nothing is
\* left unflushed, and no call hands over two records.
C17_OneRecordFlushed ==
    /\ proc.sends <= 1
    /\ (SendMessageOver /\ ~proc.down_seen)
          => /\ proc.sends = 1
             /\ proc.flushed
             /\ proc.raised = None
             /\ broker.buffer = <<>>
             /\ Cardinality(delivered) = 1
             /\ broker.log[Len(broker.log)] = <<proc.topic, proc.payload>>

\* the second publish of a service is over, the broker reachable all along
C17_Witness ==
    /\ SendMessageOver
    /\ ~proc.down_seen
    /\ proc.calls = 2
    /\ Cardinality(delivered) = 1

\* C18: constructing the client makes no connection attempt and leaves the
\* producer unset; until the first publish call there is no attempt.
C18_LazyProducer ==
    proc.calls = 0 => /\ kafka_handler.producer = None
                      /\ broker.connects = 0

\* the client of a service is constructed, the broker reachable, no publish yet
C18_Witness ==
    /\ proc.role = "service"
    /\ proc.pc = "idle"
    /\ proc.calls = 0
    /\ broker.up
    /\ kafka_handler = KafkaHandler("kafka:9092")

\* get_producer is running
InGetProducer == proc.pc \in {"get_producer", "while", "sleep"}

\* get_producer has returned
GetProducerOver == proc.pc = "got_producer"

C19_Bounded ==
    /\ proc.attempts <= Retries
    /\ proc.pc = "while" => /\ proc.retries = Retries - proc.attempts
                            /\ proc.slept = RetryDelay * proc.attempts
    /\ proc.pc \in {"while", "sleep"} => kafka_handler.producer = None
    /\ (GetProducerOver /\ kafka_handler.producer = None)
          => /\ proc.attempts = Retries
             /\ proc.raised = None

\* C19: one get_producer call on a client whose producer is unset makes at
\* most 5 connection attempts, a fixed delay after each failure, stops at the
\* first success and always terminates; after 5 failures it returns with the
\* producer still unset and raises nothing.
C19_BoundedRetries == []C19_Bounded /\ (InGetProducer ~> GetProducerOver)

\* get_producer returned after five failed attempts
C19_Witness ==
    /\ GetProducerOver
    /\ kafka_handler.producer = None
    /\ proc.attempts = 5
    /\ proc.slept = 25

\* C20: a worker that subscribes while the broker is unreachable neither
\* raises nor terminates at that point.
C20_SubscribeNeedsNoBroker ==
    proc.role = "worker" => /\ proc.raised = None
                            /\ proc.pc # "terminated"

\* the two requests of test_tts.py: requests.post(.../tts/synthesize) and
\* requests.get on the download path, neither with an Authorization header
test_tts_requests ==
    {r \in GatewayRequests :
        /\ r.headers = <<>>
        /\ \/ r.method = "POST" /\ r.path = <<"tts", "synthesize">>
           \/ r.method = "GET" /\ r.path = <<"tts", "audio", "id1", "download">>}

\* C21: a client that sends POST /tts/synthesize and then GET on the audio
\* download path through the gateway, without an Authorization header, is
\* answered 200 both times.
C21_TestScriptSucceeds ==
    (Responded /\ req \in test_tts_requests) => resp.status = 200

C24_AlwaysInstrumented ==
    Responded =>
        /\ resp.log = << <<req.method, req.path, resp.status>> >>
        /\ get_ci(resp.headers, "x-process-time") # None
        /\ get_ci(resp.headers, "x-content-type-options") = Str("nosniff")

\* proxy_request was called for a registered service
ProxyCalled == Returned /\ resp.handler = "proxy" /\ req.path[1] \in DOMAIN SERVICES

\* C26: each invocation of proxy_request issues at most one outbound call;
\* after a connection failure, a timeout or any other failure the error
\* answer is returned with that one call made and no second attempt.
C26_NoRetry ==
    /\ (Returned /\ resp.handler = "proxy") => Len(resp.calls) <= 1
    /\ ProxyCalled =>
          /\ Len(resp.calls) = 1
          /\ resp.calls[1].outcome.kind # "response"
                => /\ resp.kind = "HTTPException"
                   /\ resp.status \in {500, 503, 504}

\* proxy_request answered 504 after its one call timed out
C26_Witness ==
    /\ ProxyCalled
    /\ Len(resp.calls) = 1
    /\ resp.calls[1].outcome.kind = "TimeoutException"
    /\ resp.status = 504

\* C27: the middleware itself never fails: every name it calls is
\* resolvable, so each request ends in one of the pipeline's own 429/401/403
\* answers or in the downstream handler's response, never in an error raised
\* inside the pipeline.
C27_MiddlewareNeverFails ==
    /\ check_rate_limit("10.0.0.1").raised = "no"
    /\ Responded =>
          \/ resp.kind = "JSONResponse" /\ resp.status \in {429, 401, 403}
          \/ resp.kind \in {"Response", "HTTPException"} /\ Len(resp.log) = 1

\* C25: services_status probes the services concurrently: no probe waits for
\* the completion of another, so once any probe has completed every probe
\* has been issued (and two or more probes are in flight before that).
C25_ProbesConcurrent ==
    (pc \in {"for", "await"} /\ Len(proc.status) >= 1)
        => Len(proc.issued) = Len(service_order)

\* what the loop does instead: at most one probe is ever in flight, and the
\* mapping it returns is the one services_status computes from the outcomes
OneProbeInFlight ==
    /\ Cardinality(proc.in_flight) <= 1
    /\ pc = "returned" =>
          resp = services_status([n \in DOMAIN SERVICES |->
                    resp.calls[CHOOSE k \in 1..Len(service_order) :
                                   service_order[k] = n].outcome])

\* the records the broker holds or the producer still buffers
handed_over ==
    {broker.log[i] : i \in 1..Len(broker.log)}
        \cup {broker.buffer[i] : i \in 1..Len(broker.buffer)}

\* C28: a failed producer construction never disables the client for good:
\* while the producer is unset every send_message call starts a fresh
\* construction of up to 5 attempts, so a send issued with the broker
\* reachable constructs the producer and delivers its record, while the
\* records of the sends that found no producer are dropped and never sent.
C28_RecoversAfterFailure ==
    /\ (proc.pc = "while" /\ proc.attempts = 0)
          => /\ kafka_handler.producer = None
             /\ proc.retries = Retries
    /\ (SendMessageOver /\ ~proc.down_seen)
          => /\ kafka_handler.producer # None
             /\ <<proc.topic, proc.payload>> \in handed_over
             /\ <<proc.topic, proc.payload>> \notin proc.dropped
    /\ proc.dropped \cap handed_over = {}

\* the first send found no producer after five attempts and was dropped;
\* the second, issued with the broker reachable, delivered its record
C28_Witness ==
    /\ SendMessageOver
    /\ ~proc.down_seen
    /\ proc.calls = 2
    /\ proc.attempts = 1
    /\ Cardinality(proc.dropped) = 1
    /\ Len(broker.log) = 1

\* an upload adapter has returned and its backend had answered
UploadAnswered == Uploaded /\ resp.calls[1].outcome.kind = "response"

\* C29: the upload adapters do not relay the backend's status code: a
\* backend body that parses as JSON is returned under status 200 whatever
\* status the backend answered with, 4xx and 5xx included; a body that is
\* not JSON yields 500.
C29_StatusNotRelayed ==
    UploadAnswered =>
        LET outcome == resp.calls[1].outcome
        IN  IF outcome.content.type = "json"
            THEN resp.status = 200 /\ resp.content = outcome.content
            ELSE resp.status = 500 /\ resp.kind = "HTTPException"

\* the document backend answered 500 with a JSON body and the adapter
\* returned that body under 200
C29_Witness ==
    /\ UploadAnswered
    /\ resp.handler = "documents_upload"
    /\ resp.calls[1].outcome.status_code = 500
    /\ resp.calls[1].outcome.content.type = "json"
    /\ resp.status = 200

\* a worker has subscribed and waits for messages
Polling == proc.role = "worker" /\ proc.pc = "polling"

\* C30: every topic a worker subscribes to is a topic that some service or
\* worker publishes to, with the payload keys the worker reads.
C30_SubscribedTopicsPublished ==
    Polling =>
        \E p \in Publications :
            /\ p.topic = proc.topic
            /\ keys_read(proc.topic) \subseteq p.keys

\* what holds instead: the only subscribed topic anything publishes to is
\* chat.message, and its payload lacks the key "message"
OnlyChatTopicPublished ==
    Polling =>
        /\ (\E p \in Publications : p.topic = proc.topic)
              <=> proc.topic = "chat.message"
        /\ proc.topic = "chat.message"
              => \A p \in Publications :
                    p.topic = proc.topic
                        => keys_read(proc.topic) \ p.keys = {"message"}
====
